---- MODULE Spec2Model ----
(***************************************************************************)
(* ReciprocalTruthEnforcer (src/engine/reciprocity_engine.py) as a state   *)
(* machine: the consent ledger, the receipt histories and anchor, the      *)
(* ingestion gate, the artifact lifecycle, the reuse log and the audit.    *)
(* Python dicts are functions with a growing domain, lists are sequences,  *)
(* strings are strings.  The wall clock (datetime.utcnow, date.today) is   *)
(* the variable now, advanced by Tick; one day is TicksPerDay readings.    *)
(* The code reads the clock and never waits for it, so any number of calls *)
(* may fall between two Ticks and read the same value.  The variable last  *)
(* holds the latest call: its name, its arguments and what it returned or  *)
(* raised.                                                                 *)
(***************************************************************************)
EXTENDS Integers, Sequences, FiniteSets, TLC

VARIABLES consent, receipts, receipt_anchor, attribution, artifact_state,
          reuse_log, known_users, extractive_ingests, published_count,
          now, last

vars == <<consent, receipts, receipt_anchor, attribution, artifact_state,
          reuse_log, known_users, extractive_ingests, published_count,
          now, last>>

store == <<consent, receipts, receipt_anchor, attribution, artifact_state,
           reuse_log, known_users, extractive_ingests, published_count>>

(* ------------------------------ bounds -------------------------------- *)

\* receipts issued + extractive ingestions admitted + reuses logged
MaxEvents == 3
\* last reading of the clock
MaxClock == 1
\* clock readings per calendar day
TicksPerDay == 1

(* ------------------------------ inputs -------------------------------- *)

Users == {"u1", "u2"}
Payloads == {"x"}

\* Python's None, for a parameter that is a list or None
NoneList == [some |-> FALSE, val |-> <<>>]
SomeList(s) == [some |-> TRUE, val |-> s]

\* the expires parameter: None, "" , an ISO date, an ISO date-time, or a
\* string that is no ISO date
ExpNone == [kind |-> "none", day |-> 0]
ExpDate(d) == [kind |-> "date", day |-> d]
ExpDateTime(d) == [kind |-> "datetime", day |-> d]
ExpBad == [kind |-> "bad", day |-> 0]

ExpEmpty == [kind |-> "empty", day |-> 0]

\* the (extractive, expires, scope) arguments set_consent is called with
ConsentArgs ==
  { <<TRUE, ExpNone, NoneList>>,
    <<TRUE, ExpDate(0), SomeList(<<"research">>)>>,
    <<TRUE, ExpBad, SomeList(<<"research", "train">>)>>,
    <<TRUE, ExpBad, SomeList(<<"train", "research">>)>>,
    <<FALSE, ExpNone, SomeList(<<>>)>> }

\* the required_scopes arguments ingest is called with
RequiredArgs == {NoneList, SomeList(<<"train", "research">>)}

\* u1 calls with every argument above, u2 with the defaults of the signatures
ConsentArgsOf(u) == IF u = "u1" THEN ConsentArgs ELSE {<<TRUE, ExpNone, NoneList>>}
RequiredArgsOf(u) == IF u = "u1" THEN RequiredArgs ELSE {NoneList}

States == {"generated", "used", "published", "archived"}
StateArgs == States \cup {"deleted"}

(* ------------------------------ helpers ------------------------------- *)

Range(s) == {s[i] : i \in DOMAIN s}

EmptyDict == [k \in {} |-> k]

\* d[k] = v on a dict
Put(d, k, v) == [x \in DOMAIN d \cup {k} |-> IF x = k THEN v ELSE d[x]]

RECURSIVE SumLen(_, _)
SumLen(d, ks) ==
  IF ks = {} THEN 0
  ELSE LET k == CHOOSE x \in ks : TRUE
       IN Len(d[k]) + SumLen(d, ks \ {k})

(* ------------------------------ clock --------------------------------- *)

\* datetime.utcnow().isoformat()
IsoFormat(t) == "T" \o ToString(t)
\* str(datetime.utcnow())
StrTime(t) == " " \o ToString(t)
\* date.today()
Today(t) == t \div TicksPerDay

(* --------------------------- consent ledger --------------------------- *)

DefaultConsent == [extractive |-> FALSE, expires |-> ExpNone, scope |-> <<>>]

register_consent_reset(c, u) == Put(c, u, DefaultConsent)

\* register_user, on each of the three collections it touches
register_known(ku, u) == ku \cup {u}
register_consent(c, u) == IF u \in DOMAIN c THEN c ELSE Put(c, u, DefaultConsent)
register_receipts(r, u) == IF u \in DOMAIN r THEN r ELSE Put(r, u, <<>>)

\* repr() of the values of a consent dict
ReprBool(b) == IF b THEN "True" ELSE "False"
IsoDate(d) == "2026-01-0" \o ToString(d + 1)
ExpiresText(e) ==
  CASE e.kind = "date" -> IsoDate(e.day)
    [] e.kind = "datetime" -> IsoDate(e.day) \o "T00:00:00"
    [] e.kind = "bad" -> "soon"
    [] OTHER -> ""
ReprExpires(e) == IF e.kind = "none" THEN "None" ELSE "'" \o ExpiresText(e) \o "'"
RECURSIVE ReprItems(_)
ReprItems(s) ==
  IF s = <<>> THEN ""
  ELSE IF Len(s) = 1 THEN "'" \o s[1] \o "'"
  ELSE "'" \o s[1] \o "', " \o ReprItems(Tail(s))
ReprList(s) == "[" \o ReprItems(s) \o "]"

\* str(consent_obj): the keys in insertion order
StrConsent(c) ==
  "{'extractive': " \o ReprBool(c.extractive) \o ", 'expires': " \o ReprExpires(c.expires)
    \o ", 'scope': " \o ReprList(c.scope) \o "}"

\* hashlib.sha256(payload).hexdigest(), taken as collision free
Sha256Hex(payload) == "sha256:" \o payload

\* the digest of _generate_consent_receipt
ReceiptDigest(u, c) == Sha256Hex(u \o "|" \o StrConsent(c))

ReceiptRecord_salted(u, c, t) ==
  [timestamp |-> IsoFormat(t),
   receipt |-> Sha256Hex(u \o "|" \o StrConsent(c) \o "|" \o IsoFormat(t)),
   snapshot |-> c]

ReceiptRecord(u, c, t) ==
  [timestamp |-> IsoFormat(t), receipt |-> ReceiptDigest(u, c), snapshot |-> c]

AnchorEntry(rec) == [receipt |-> rec.receipt, timestamp |-> rec.timestamp]

history_aliased(r, u, rec) ==
  [r EXCEPT ![u] =
     Append([i \in DOMAIN @ |-> [@[i] EXCEPT !.snapshot = rec.snapshot]], rec)]

\* self.receipts[user_id].append(record)
history_appended(r, u, rec) == [r EXCEPT ![u] = Append(@, rec)]

anchor_skipped(a, rec) == a

\* self.receipt_anchor.append({...})
anchor_appended(a, rec) == Append(a, AnchorEntry(rec))

\* the consent dict set_consent stores
new_consent(extractive, expires, scopeArg) ==
  [extractive |-> extractive, expires |-> expires,
   scope |-> IF scopeArg.some THEN scopeArg.val ELSE <<>>]

revoked_kept(c) == c

\* self.consent[user_id]["extractive"] = False
revoked(c) == [c EXCEPT !.extractive = FALSE]

\* datetime.fromisoformat(expires.split('T')[0]).date(); "error" is ValueError
ParseExpiry(e) ==
  IF e.kind \in {"date", "datetime"} THEN [ok |-> TRUE, day |-> e.day]
  ELSE [ok |-> FALSE, day |-> 0]

is_active_extractive_nonstrict(c, u, t) ==
  IF u \notin DOMAIN c THEN FALSE
  ELSE IF ~c[u].extractive THEN FALSE
  ELSE IF c[u].expires.kind \notin {"none", "empty"}
            /\ ParseExpiry(c[u].expires).ok
            /\ Today(t) >= ParseExpiry(c[u].expires).day THEN FALSE
  ELSE TRUE

\* is_active_extractive on a consent dict c at clock reading t
is_active_extractive(c, u, t) ==
  IF u \notin DOMAIN c THEN FALSE
  ELSE IF ~c[u].extractive THEN FALSE
  ELSE IF c[u].expires.kind \notin {"none", "empty"}
            /\ ParseExpiry(c[u].expires).ok
            /\ Today(t) > ParseExpiry(c[u].expires).day THEN FALSE
  ELSE TRUE

IsActiveExtractive(u) == is_active_extractive(consent, u, now)

\* get_latest_receipt
get_latest_receipt(u) ==
  IF u \notin DOMAIN receipts \/ receipts[u] = <<>> THEN "None"
  ELSE receipts[u][Len(receipts[u])].receipt

\* get_consent_history
get_consent_history(u) == IF u \in DOMAIN receipts THEN receipts[u] ELSE <<>>

(* ------------------------------ Init ---------------------------------- *)

Init ==
  /\ consent = EmptyDict
  /\ receipts = EmptyDict
  /\ receipt_anchor = <<>>
  /\ attribution = EmptyDict
  /\ artifact_state = EmptyDict
  /\ reuse_log = <<>>
  /\ known_users = {}
  /\ extractive_ingests = 0
  /\ published_count = 0
  /\ now = 0
  /\ last = [op |-> "init", status |-> "ok"]

(* ----------------------------- actions -------------------------------- *)

\* what the bound MaxEvents counts
Events == Len(receipt_anchor) + extractive_ingests + Len(reuse_log)

Tick ==
  /\ now < MaxClock
  /\ now' = now + 1
  /\ UNCHANGED <<store, last>>

register_user(u) ==
  /\ known_users' = register_known(known_users, u)
  /\ consent' = register_consent(consent, u)
  /\ receipts' = register_receipts(receipts, u)
  /\ last' = [op |-> "register_user", status |-> "ok", user |-> u]
  /\ UNCHANGED <<receipt_anchor, attribution, artifact_state, reuse_log,
                 extractive_ingests, published_count, now>>

generate_consent_receipt_stale(u, c1) ==
  LET rec == ReceiptRecord(u, register_consent(consent, u)[u], now)
  IN /\ receipts' = history_appended(register_receipts(receipts, u), u, rec)
     /\ receipt_anchor' = anchor_appended(receipt_anchor, rec)

\* _generate_consent_receipt on the consent dict c1 of u
generate_consent_receipt(u, c1) ==
  LET rec == ReceiptRecord(u, c1[u], now)
  IN /\ receipts' = history_appended(register_receipts(receipts, u), u, rec)
     /\ receipt_anchor' = anchor_appended(receipt_anchor, rec)

set_consent(u, extractive, expires, scopeArg) ==
  /\ Events < MaxEvents
  /\ LET c1 == Put(register_consent(consent, u), u, new_consent(extractive, expires, scopeArg))
     IN /\ known_users' = register_known(known_users, u)
        /\ consent' = c1
        /\ generate_consent_receipt(u, c1)
        /\ last' = [op |-> "set_consent", status |-> "ok", user |-> u,
                    extractive |-> extractive, ret |-> ReceiptDigest(u, c1[u])]
  /\ UNCHANGED <<attribution, artifact_state, reuse_log, extractive_ingests,
                 published_count, now>>

revoke_consent(u) ==
  /\ Events < MaxEvents
  /\ LET c0 == register_consent(consent, u)
         c1 == [c0 EXCEPT ![u] = revoked(@)]
     IN /\ known_users' = register_known(known_users, u)
        /\ consent' = c1
        /\ generate_consent_receipt(u, c1)
        /\ last' = [op |-> "revoke_consent", status |-> "ok", user |-> u,
                    ret |-> ReceiptDigest(u, c1[u])]
  /\ UNCHANGED <<attribution, artifact_state, reuse_log, extractive_ingests,
                 published_count, now>>

(* --------------------------- ingestion gate --------------------------- *)

\* hash(s) of a str, taken as collision free
HashStr(s) == "h(" \o s \o ")"

\* f"artifact_{hash(str(payload) + str(datetime.utcnow()))}": a function of
\* the payload and of the clock reading, so two ingestions of one payload
\* that read the same clock value get one id
artifact_id(payload, t) == "artifact_" \o HashStr(payload \o StrTime(t))

\* the ids transition_artifact_state and log_reuse are called with: every id
\* ingest can have produced, known to the store or not
ArtifactIds == {artifact_id(p, t) : p \in Payloads, t \in 0..MaxClock}

enforcement_scoped_only(extractive, required) == required # <<>>

\* if extractive or required_scopes:
enforcement_runs(extractive, required) == extractive \/ required # <<>>

scopes_overlap(required, scope) == Range(required) \cap Range(scope) # {}

\* set(required_scopes) <= consent_scope
scopes_covered(required, scope) == Range(required) \subseteq Range(scope)

\* the error ingest raises for u on the consent dict c, "" when it raises none
ingest_error(c, u, extractive, required, t) ==
  IF enforcement_runs(extractive, required)
  THEN IF ~is_active_extractive(c, u, t)
       THEN "Extractive use or scoped access requires active opt-in consent"
       ELSE IF required # <<>> /\ ~scopes_covered(required, c[u].scope)
       THEN "Required scopes not covered by user consent"
       ELSE ""
  ELSE ""

\* record_derivative
record_derivative(attr, aid, u) ==
  LET a1 == IF aid \in DOMAIN attr THEN attr ELSE Put(attr, aid, <<>>)
  IN IF u \in Range(a1[aid]) THEN a1 ELSE [a1 EXCEPT ![aid] = Append(@, u)]

\* the three updates of ingest under "if extractive:"
ingest_count(n, extractive) == IF extractive THEN n + 1 ELSE n
ingest_attribution(attr, aid, u, extractive) ==
  IF extractive THEN record_derivative(attr, aid, u) ELSE attr
ingest_state_always(st, aid, extractive) == Put(st, aid, "generated")
ingest_state(st, aid, extractive) ==
  IF extractive THEN Put(st, aid, "generated") ELSE st

\* "artifact_id": artifact_id if extractive else None
ingest_return(aid, extractive) == IF extractive THEN aid ELSE "None"

ingest(u, payload, extractive, reqArg) ==
  LET required == IF reqArg.some THEN reqArg.val ELSE <<>>
      c0 == register_consent(consent, u)
      err == ingest_error(c0, u, extractive, required, now)
      aid == artifact_id(payload, now)
  IN /\ (err = "" /\ extractive) => Events < MaxEvents
     /\ known_users' = register_known(known_users, u)
     /\ consent' = c0
     /\ receipts' = register_receipts(receipts, u)
     /\ IF err = ""
        THEN /\ extractive_ingests' = ingest_count(extractive_ingests, extractive)
             /\ attribution' = ingest_attribution(attribution, aid, u, extractive)
             /\ artifact_state' = ingest_state(artifact_state, aid, extractive)
             /\ last' = [op |-> "ingest", status |-> "ok", user |-> u,
                         extractive |-> extractive, required |-> required,
                         ret |-> ingest_return(aid, extractive)]
        ELSE /\ UNCHANGED <<extractive_ingests, attribution, artifact_state>>
             /\ last' = [op |-> "ingest", status |-> "PermissionError", user |-> u,
                         extractive |-> extractive, required |-> required,
                         ret |-> err]
     /\ UNCHANGED <<receipt_anchor, reuse_log, published_count, now>>

(* -------------------------- artifact lifecycle ------------------------ *)

valid_transitions_skipping(current) ==
  CASE current = "generated" -> {"used", "published", "archived"}
    [] current = "used" -> {"published", "archived"}
    [] current = "published" -> {"archived"}
    [] OTHER -> {}

\* valid_transitions.get(current, [])
valid_transitions(current) ==
  CASE current = "generated" -> {"used", "archived"}
    [] current = "used" -> {"published", "archived"}
    [] current = "published" -> {"archived"}
    [] OTHER -> {}

\* the error transition_artifact_state raises, "" when it raises none
transition_error(st, aid, new_state) ==
  IF aid \notin DOMAIN st THEN "Artifact not found"
  ELSE IF new_state \notin valid_transitions(st[aid]) THEN "Invalid transition"
  ELSE ""

published_current(n, new_state) ==
  IF new_state = "published" THEN n + 1
  ELSE IF new_state = "archived" THEN n - 1 ELSE n

\* if new_state == "published": self.published_count += 1
published_after(n, new_state) == IF new_state = "published" THEN n + 1 ELSE n

transition_artifact_state(aid, new_state) ==
  LET err == transition_error(artifact_state, aid, new_state)
  IN /\ IF err = ""
        THEN /\ published_count' = published_after(published_count, new_state)
             /\ artifact_state' = [artifact_state EXCEPT ![aid] = new_state]
             /\ last' = [op |-> "transition_artifact_state", status |-> "ok",
                         aid |-> aid, new_state |-> new_state]
        ELSE /\ UNCHANGED <<published_count, artifact_state>>
             /\ last' = [op |-> "transition_artifact_state", status |-> "ValueError",
                         aid |-> aid, new_state |-> new_state, ret |-> err]
     /\ UNCHANGED <<consent, receipts, receipt_anchor, attribution, reuse_log,
                    known_users, extractive_ingests, now>>

reuse_state_forced(st, aid) ==
  IF aid \in DOMAIN st THEN [st EXCEPT ![aid] = "used"] ELSE st

reuse_state_unguarded(st, aid) ==
  IF aid \in DOMAIN st /\ st[aid] \notin {"generated", "used"} THEN st
  ELSE Put(st, aid, "used")

\* the artifact states after log_reuse
reuse_state(st, aid) ==
  IF aid \in DOMAIN st /\ st[aid] \in {"generated", "used"}
  THEN [st EXCEPT ![aid] = "used"]
  ELSE st

\* self.reuse_log.append({...})
reuse_appended(log, aid, disclosed, t) ==
  Append(log, [artifact_id |-> aid, disclosed |-> disclosed, timestamp |-> IsoFormat(t)])

log_reuse(aid, disclosed) ==
  /\ Events < MaxEvents
  /\ artifact_state' = reuse_state(artifact_state, aid)
  /\ reuse_log' = reuse_appended(reuse_log, aid, disclosed, now)
  /\ last' = [op |-> "log_reuse", status |-> "ok", aid |-> aid, disclosed |-> disclosed]
  /\ UNCHANGED <<consent, receipts, receipt_anchor, attribution, known_users,
                 extractive_ingests, published_count, now>>

(* ------------------------------- audit -------------------------------- *)

\* round(n / d, 4), in ten-thousandths: the nearest integer to 10000 n / d,
\* a tie going to the even one
Round4(n, d) ==
  LET q == (10000 * n) \div d
      r == (10000 * n) % d
  IN IF 2 * r > d THEN q + 1
     ELSE IF 2 * r < d THEN q
     ELSE IF q % 2 = 0 THEN q ELSE q + 1

Ratio_unguarded(n, d, ifZero) == IF d > 0 THEN Round4(n, d) ELSE 10000

Ratio(n, d, ifZero) == IF d > 0 THEN Round4(n, d) ELSE ifZero

CountState(s) == Cardinality({a \in DOMAIN artifact_state : artifact_state[a] = s})

audit ==
  LET total_users == Cardinality(known_users)
      active == {u \in known_users : IsActiveExtractive(u)}
      active_consenting == Cardinality(active)
      attributed_artifacts == Cardinality(DOMAIN attribution)
      total_reuses == Len(reuse_log)
      silent_reuses == Cardinality({i \in DOMAIN reuse_log : ~reuse_log[i].disclosed})
      exp_count == Cardinality({u \in active : consent[u].expires.kind # "none"})
      scope_count == Cardinality({u \in active : Len(consent[u].scope) > 0})
  IN [RIM1 |-> Ratio(active_consenting, total_users, 0),
      RIM2 |-> Ratio(attributed_artifacts, extractive_ingests, 0),
      RIM3 |-> Ratio(total_reuses - silent_reuses, total_reuses, 10000),
      RIM4 |-> Ratio(exp_count, active_consenting, 0),
      RIM5 |-> Ratio(scope_count, active_consenting, 0),
      RIM6 |-> Ratio(published_count, extractive_ingests, 0),
      total_users |-> total_users,
      active_consenting_users |-> active_consenting,
      extractive_ingests |-> extractive_ingests,
      ever_published_artifacts |-> published_count,
      attributed_artifacts |-> attributed_artifacts,
      total_reuses |-> total_reuses,
      silent_reuses |-> silent_reuses,
      artifact_states |-> [s \in States |-> CountState(s)],
      total_receipts_issued |-> SumLen(receipts, DOMAIN receipts),
      anchored_receipts |-> Len(receipt_anchor)]

Audit_sweeping ==
  /\ last' = [op |-> "audit", status |-> "ok", ret |-> audit, at |-> now]
  /\ consent' = [u \in DOMAIN consent |->
                   IF IsActiveExtractive(u) THEN consent[u] ELSE revoked(consent[u])]
  /\ UNCHANGED <<receipts, receipt_anchor, attribution, artifact_state, reuse_log,
                 known_users, extractive_ingests, published_count, now>>

\* audit(): the report, and the clock reading it was made at
Audit ==
  /\ last' = [op |-> "audit", status |-> "ok", ret |-> audit, at |-> now]
  /\ UNCHANGED <<store, now>>

(* ------------------------------- Next --------------------------------- *)

Next ==
  \/ Tick
  \/ \E u \in Users : register_user(u)
  \/ \E u \in Users : \E a \in ConsentArgsOf(u) : set_consent(u, a[1], a[2], a[3])
  \/ \E u \in Users : revoke_consent(u)
  \/ \E u \in Users : \E p \in Payloads, e \in BOOLEAN, r \in RequiredArgsOf(u) : ingest(u, p, e, r)
  \/ \E a \in ArtifactIds, s \in StateArgs : transition_artifact_state(a, s)
  \/ \E a \in ArtifactIds, d \in BOOLEAN : log_reuse(a, d)
  \/ Audit

Spec == Init /\ [][Next]_vars

(* ------------------------------ calls --------------------------------- *)

\* The step is a call of op.  Every operation writes its name to last and
\* leaves the clock alone; Tick alone changes the clock and leaves last.
Called(op) == last'.op = op /\ now' = now

Abs(n) == IF n < 0 THEN -n ELSE n

(* ------------------------------ claims -------------------------------- *)

\* C1: right after revoke_consent(u), whatever u's consent was before (none,
\* the default, opted in), is_active_extractive(u) is false; and a user whose
\* extractive flag is off stays inactive over every step that is not a
\* set_consent(u, extractive=True, ...).
C1_RevokeDeactivates ==
  [][\A u \in Users :
       /\ (Called("revoke_consent") /\ last'.user = u) => ~IsActiveExtractive(u)'
       /\ ( /\ u \in DOMAIN consent
            /\ ~consent[u].extractive
            /\ ~(Called("set_consent") /\ last'.user = u /\ last'.extractive) )
          => (u \in DOMAIN consent' /\ ~consent'[u].extractive /\ ~IsActiveExtractive(u)')
    ]_vars

\* a revoke of a user whose previous receipt recorded an opt-in
C1_Witness ==
  /\ last.op = "revoke_consent"
  /\ Len(receipts[last.user]) >= 2
  /\ receipts[last.user][Len(receipts[last.user]) - 1].snapshot.extractive
  /\ ~IsActiveExtractive(last.user)

\* C2: each set_consent / revoke_consent call appends exactly one record to
\* that user's history and one entry to the anchor, no other step appends to
\* either; the anchor is as long as all histories together, and audit reports
\* total_receipts_issued = anchored_receipts.
C2_OneReceiptOneAnchor ==
  /\ [](/\ Len(receipt_anchor) = SumLen(receipts, DOMAIN receipts)
        /\ audit.total_receipts_issued = audit.anchored_receipts)
  /\ [][IF Called("set_consent") \/ Called("revoke_consent")
        THEN /\ Len(receipts'[last'.user]) = Len(get_consent_history(last'.user)) + 1
             /\ Len(receipt_anchor') = Len(receipt_anchor) + 1
             /\ \A v \in DOMAIN receipts' \ {last'.user} : receipts'[v] = get_consent_history(v)
        ELSE /\ receipt_anchor' = receipt_anchor
             /\ \A v \in DOMAIN receipts' : receipts'[v] = get_consent_history(v)
       ]_vars

\* two users hold a receipt each, the second one just issued
C2_Witness ==
  /\ last.op \in {"set_consent", "revoke_consent"}
  /\ Len(receipt_anchor) = 2
  /\ \A u \in Users : u \in DOMAIN receipts /\ Len(receipts[u]) = 1

\* C3: ingest(u, payload, extractive=True, ...) while is_active_extractive(u)
\* is false raises PermissionError and leaves artifact_state, attribution and
\* extractive_ingests as they were.
C3_DeniedIngestChangesNothing ==
  [][(Called("ingest") /\ last'.extractive /\ ~IsActiveExtractive(last'.user)) =>
        /\ last'.status = "PermissionError"
        /\ UNCHANGED <<artifact_state, attribution, extractive_ingests>>
    ]_vars

\* an extractive ingest was denied while the store holds an artifact
C3_Witness ==
  /\ last.op = "ingest" /\ last.extractive /\ last.status = "PermissionError"
  /\ ~IsActiveExtractive(last.user)
  /\ DOMAIN artifact_state # {}
  /\ extractive_ingests > 0

\* the lifecycle table of the claim
AllowedPairs ==
  { <<"generated", "used">>, <<"generated", "archived">>, <<"used", "published">>,
    <<"used", "archived">>, <<"published", "archived">> }

\* C4: transition_artifact_state(id, s) succeeds, setting the state to s,
\* exactly when id is known and (current, s) is in the table; otherwise it
\* raises ValueError and leaves the artifact states and published_count alone.
C4_TransitionTable ==
  [][Called("transition_artifact_state") =>
       LET a == last'.aid
           s == last'.new_state
       IN IF a \in DOMAIN artifact_state /\ <<artifact_state[a], s>> \in AllowedPairs
          THEN /\ last'.status = "ok"
               /\ artifact_state' = [artifact_state EXCEPT ![a] = s]
          ELSE /\ last'.status = "ValueError"
               /\ artifact_state' = artifact_state
               /\ published_count' = published_count
    ]_vars

\* generated -> published was refused
C4_Witness ==
  /\ last.op = "transition_artifact_state" /\ last.status = "ValueError"
  /\ last.aid \in DOMAIN artifact_state
  /\ artifact_state[last.aid] = "generated"
  /\ last.new_state = "published"

\* C5: archived is terminal: an artifact that is archived is archived after
\* every step.
C5_ArchivedIsTerminal ==
  [][\A a \in DOMAIN artifact_state :
       artifact_state[a] = "archived" =>
         (a \in DOMAIN artifact_state' /\ artifact_state'[a] = "archived")
    ]_vars

\* C6: published_count goes up by one on each successful transition into
\* published and is changed by no other step (archiving included), and the
\* RIM-6 of audit is published_count / extractive_ingests to four places,
\* 0 with no ingestion.
C6_PublishedCountsTransitions ==
  /\ [][published_count' = published_count +
          (IF /\ Called("transition_artifact_state")
              /\ last'.status = "ok"
              /\ last'.new_state = "published"
           THEN 1 ELSE 0)
       ]_vars
  /\ [](last.op = "audit" =>
          /\ last.ret.ever_published_artifacts = published_count
          /\ IF extractive_ingests = 0 THEN last.ret.RIM6 = 0
             ELSE 2 * Abs(last.ret.RIM6 * extractive_ingests - 10000 * published_count)
                    <= extractive_ingests)

\* two ingestions, one artifact published and then archived: RIM-6 is 0.5
C6_Witness ==
  /\ last.op = "audit"
  /\ extractive_ingests = 2
  /\ Cardinality(DOMAIN artifact_state) = 2
  /\ published_count = 1
  /\ CountState("published") = 0
  /\ CountState("archived") = 1
  /\ last.ret.RIM6 = 5000

\* C7: every admitted extractive ingestion adds one to extractive_ingests and
\* creates an artifact id the store did not hold, in state generated and
\* attributed to exactly the ingesting user; so the attributed artifacts are
\* as many as extractive_ingests.
C7_FreshArtifactPerIngest ==
  /\ [](Cardinality(DOMAIN attribution) = extractive_ingests)
  /\ [][(Called("ingest") /\ last'.status = "ok" /\ last'.extractive) =>
          /\ extractive_ingests' = extractive_ingests + 1
          /\ last'.ret \notin DOMAIN artifact_state
          /\ artifact_state'[last'.ret] = "generated"
          /\ attribution'[last'.ret] = <<last'.user>>
       ]_vars

\* C8: a successful ingest with extractive=False returns no artifact id and
\* leaves artifact_state, attribution and extractive_ingests as they were,
\* with or without required scopes.
C8_PlainIngestCreatesNothing ==
  [][(Called("ingest") /\ last'.status = "ok" /\ ~last'.extractive) =>
        /\ last'.ret = "None"
        /\ UNCHANGED <<artifact_state, attribution, extractive_ingests>>
    ]_vars

\* a scoped, non-extractive ingest was admitted
C8_Witness ==
  /\ last.op = "ingest" /\ last.status = "ok" /\ ~last.extractive
  /\ last.required # <<>>
  /\ last.ret = "None"
  /\ DOMAIN artifact_state = {}

\* C9: with extractive or a non-empty required_scopes, ingest succeeds exactly
\* when the user is active-extractive and every required scope is in the
\* user's scope, and raises PermissionError otherwise; with neither it
\* succeeds whatever the consent.
C9_EnforcementRule ==
  [][Called("ingest") =>
       LET u == last'.user
           req == last'.required
           scope == IF u \in DOMAIN consent THEN Range(consent[u].scope) ELSE {}
       IN IF last'.extractive \/ req # <<>>
          THEN /\ last'.status \in {"ok", "PermissionError"}
               /\ last'.status = "ok" <=> (IsActiveExtractive(u) /\ Range(req) \subseteq scope)
          ELSE last'.status = "ok"
    ]_vars

\* an active user was refused for a scope the consent does not cover
C9_Witness ==
  /\ last.op = "ingest" /\ last.status = "PermissionError"
  /\ IsActiveExtractive(last.user)
  /\ last.required # <<>>
  /\ ~(Range(last.required) \subseteq Range(consent[last.user].scope))

\* C10: log_reuse(id, disclosed) never fails and appends exactly one entry
\* carrying id and disclosed, known artifact or not; for an unknown id it
\* adds no artifact state and no attribution.
C10_ReuseAlwaysLogged ==
  [][Called("log_reuse") =>
       /\ last'.status = "ok"
       /\ Len(reuse_log') = Len(reuse_log) + 1
       /\ SubSeq(reuse_log', 1, Len(reuse_log)) = reuse_log
       /\ reuse_log'[Len(reuse_log')].artifact_id = last'.aid
       /\ reuse_log'[Len(reuse_log')].disclosed = last'.disclosed
       /\ last'.aid \notin DOMAIN artifact_state =>
            (artifact_state' = artifact_state /\ attribution' = attribution)
    ]_vars

\* a reuse of an id the store does not hold, beside one it holds
C10_Witness ==
  /\ last.op = "log_reuse"
  /\ last.aid \notin DOMAIN artifact_state
  /\ DOMAIN artifact_state # {}
  /\ reuse_log[Len(reuse_log)].artifact_id = last.aid

C12_ReceiptRoundTrip ==
  \A u \in DOMAIN receipts : \A i \in DOMAIN receipts[u] :
    ReceiptDigest(u, receipts[u][i].snapshot) = receipts[u][i].receipt

\* a history of an opt-in with expiry and scopes followed by its revocation:
\* two records with different digests
C12_Witness ==
  /\ last.op = "revoke_consent"
  /\ Len(receipts[last.user]) = 2
  /\ receipts[last.user][1].snapshot.extractive
  /\ receipts[last.user][1].snapshot.scope # <<>>
  /\ receipts[last.user][1].snapshot.expires.kind # "none"
  /\ ~receipts[last.user][2].snapshot.extractive
  /\ receipts[last.user][1].receipt # receipts[last.user][2].receipt

\* C13: identical consent states hash identically: two receipts of one user
\* whose snapshots have the same extractive flag, the same expiry and the same
\* set of scopes, in whatever order the scopes were given, have one digest.
C13_SameStateSameDigest ==
  \A u \in DOMAIN receipts : \A i, j \in DOMAIN receipts[u] :
    ( /\ receipts[u][i].snapshot.extractive = receipts[u][j].snapshot.extractive
      /\ receipts[u][i].snapshot.expires = receipts[u][j].snapshot.expires
      /\ Range(receipts[u][i].snapshot.scope) = Range(receipts[u][j].snapshot.scope) )
    => receipts[u][i].receipt = receipts[u][j].receipt

\* s is a prefix of t
IsPrefix(s, t) == Len(s) <= Len(t) /\ SubSeq(t, 1, Len(s)) = s

\* C14: receipt histories and the anchor are append-only: over every step each
\* user's history stays a prefix of the new one, snapshots included (a
\* snapshot with extractive=True is not altered by a later revoke_consent),
\* and so does the anchor, whose entries are in issuance order: the entry a
\* call appends is the one of the record that call appended.
C14_AppendOnly ==
  [][/\ \A u \in DOMAIN receipts :
          u \in DOMAIN receipts' /\ IsPrefix(receipts[u], receipts'[u])
     /\ IsPrefix(receipt_anchor, receipt_anchor')
     /\ (Called("set_consent") \/ Called("revoke_consent")) =>
          LET h == receipts'[last'.user]
          IN /\ receipt_anchor' # receipt_anchor
             /\ receipt_anchor'[Len(receipt_anchor')] =
                  [receipt |-> h[Len(h)].receipt, timestamp |-> h[Len(h)].timestamp]
    ]_vars

\* a revocation after an opt-in: the first snapshot still says extractive,
\* and the anchor holds the two digests in the order they were issued
C14_Witness ==
  /\ last.op = "revoke_consent"
  /\ Len(receipts[last.user]) = 2
  /\ receipts[last.user][1].snapshot.extractive
  /\ ~consent[last.user].extractive
  /\ Len(receipt_anchor) = 2
  /\ receipt_anchor[1].receipt = receipts[last.user][1].receipt
  /\ receipt_anchor[2].receipt = receipts[last.user][2].receipt

\* C15: audit() is a pure read: it changes no part of the store, its report
\* is the one computed from the state it is called in, and an audit that
\* directly follows an audit, with no clock change in between, returns the
\* same report.
C15_AuditIsPureRead ==
  [][Called("audit") =>
       /\ UNCHANGED store
       /\ last'.status = "ok"
       /\ last'.ret = audit
       /\ (last.op = "audit" /\ last.at = now) => last'.ret = last.ret
    ]_vars

\* an audit of a store with a user, an artifact and a published transition,
\* after the clock has moved
C15_Witness ==
  /\ last.op = "audit"
  /\ last.at = now
  /\ now > 0
  /\ known_users # {}
  /\ DOMAIN artifact_state # {}
  /\ published_count = 1
  /\ last.ret.ever_published_artifacts = 1
  /\ last.ret.artifact_states["published"] = 1

\* the values of expires is_active_extractive is put to: none, the empty
\* string, no ISO date, and every date and date-time of the days of the clock
ExpiryArgs ==
  {ExpNone, ExpEmpty, ExpBad}
    \cup {ExpDate(d) : d \in 0..Today(MaxClock)}
    \cup {ExpDateTime(d) : d \in 0..Today(MaxClock)}

\* what the claim says of a user with extractive=True and expiry e on day
\* Today(t): inactive exactly when e is a well-formed date before that day
ActiveByExpiry(e, t) == ~(e.kind \in {"date", "datetime"} /\ Today(t) > e.day)

\* C16: expiry is strict: a user with extractive=True and a well-formed expiry
\* date d is active while the current date is on or before d and inactive once
\* it is after d; with no expiry or a malformed one the user is active.  So an
\* extractive ingest without required scopes is admitted up to day d and
\* denied from day d+1, the consent being the same.
C16_ExpiryIsStrict ==
  /\ [](/\ \A e \in ExpiryArgs, t \in 0..MaxClock :
             is_active_extractive(
               [u \in {"u1"} |-> [extractive |-> TRUE, expires |-> e, scope |-> <<>>]],
               "u1", t) = ActiveByExpiry(e, t)
        /\ \A u \in DOMAIN consent :
             consent[u].extractive =>
               (IsActiveExtractive(u) = ActiveByExpiry(consent[u].expires, now)))
  /\ [][( /\ Called("ingest")
          /\ last'.extractive
          /\ last'.required = <<>>
          /\ last'.user \in DOMAIN consent
          /\ consent[last'.user].extractive ) =>
            (last'.status = "ok") = ActiveByExpiry(consent[last'.user].expires, now)
       ]_vars

\* the user's one consent expires on day d; an extractive ingest was admitted
\* on day d and the next, a day later, was denied
C16_Witness ==
  /\ last.op = "ingest" /\ last.extractive /\ last.status = "PermissionError"
  /\ Len(receipts[last.user]) = 1
  /\ consent[last.user].extractive
  /\ consent[last.user].expires.kind = "date"
  /\ Today(now) = consent[last.user].expires.day + 1
  /\ \E a \in DOMAIN attribution : attribution[a] = <<last.user>>

\* the reuse log entries with disclosed=True
DisclosedReuses == Cardinality({i \in DOMAIN reuse_log : reuse_log[i].disclosed})

\* the known users that are active-extractive
ActiveUsers == {u \in known_users : IsActiveExtractive(u)}

\* C17: every ratio of audit is zero-guarded: RIM-1, RIM-2, RIM-4, RIM-5 and
\* RIM-6 are 0 when their denominator (known users, extractive ingests,
\* active users, active users, extractive ingests) is 0; RIM-3 is 1 when the
\* reuse log is empty and otherwise disclosed entries / all entries to four
\* places; and audit fails in no reachable state.
C17_RatiosZeroGuarded ==
  /\ [](/\ known_users = {} => audit.RIM1 = 0
        /\ extractive_ingests = 0 => (audit.RIM2 = 0 /\ audit.RIM6 = 0)
        /\ ActiveUsers = {} => (audit.RIM4 = 0 /\ audit.RIM5 = 0)
        /\ IF reuse_log = <<>> THEN audit.RIM3 = 10000
           ELSE 2 * Abs(audit.RIM3 * Len(reuse_log) - 10000 * DisclosedReuses)
                  <= Len(reuse_log))
  /\ [][Called("audit") =>
          /\ last'.status = "ok"
          /\ \A k \in {"RIM1", "RIM2", "RIM3", "RIM4", "RIM5", "RIM6"} :
               last'.ret[k] = audit[k]
       ]_vars

\* an audit after a single undisclosed reuse, with no user and no ingestion:
\* RIM-3 is 0 and the five guarded ratios are 0
C17_Witness ==
  /\ last.op = "audit"
  /\ known_users = {}
  /\ extractive_ingests = 0
  /\ Len(reuse_log) = 1
  /\ ~reuse_log[1].disclosed
  /\ last.ret.RIM3 = 0
  /\ last.ret.RIM1 = 0 /\ last.ret.RIM2 = 0 /\ last.ret.RIM4 = 0
  /\ last.ret.RIM5 = 0 /\ last.ret.RIM6 = 0

\* C18: the known users, the users with a consent dict and the users with a
\* receipt history are one set; a user with no receipt yet holds the default
\* consent (extractive=False, expires=None, scope=[]); register_user of a new
\* user stores that default and an empty history, and of a known user changes
\* nothing of the store.
C18_RegisteredUsersAgree ==
  /\ [](/\ known_users = DOMAIN consent
        /\ known_users = DOMAIN receipts
        /\ \A u \in known_users : receipts[u] = <<>> => consent[u] = DefaultConsent)
  /\ [][Called("register_user") =>
          LET u == last'.user
          IN IF u \in known_users
             THEN UNCHANGED store
             ELSE /\ known_users' = known_users \cup {u}
                  /\ consent'[u] = [extractive |-> FALSE, expires |-> ExpNone, scope |-> <<>>]
                  /\ receipts'[u] = <<>>
                  /\ \A v \in known_users : consent'[v] = consent[v] /\ receipts'[v] = receipts[v]
       ]_vars

\* register_user of a user who has opted in and holds a receipt, beside a
\* user known only by the default
C18_Witness ==
  /\ last.op = "register_user"
  /\ last.user \in known_users
  /\ consent[last.user].extractive
  /\ consent[last.user].scope # <<>>
  /\ Len(receipts[last.user]) = 1
  /\ \E v \in known_users \ {last.user} : consent[v] = DefaultConsent /\ receipts[v] = <<>>

\* C19: for every user with a receipt, the snapshot of the last record is the
\* user's current consent dict, and get_latest_receipt(u) is the digest the
\* latest set_consent / revoke_consent of u returned; every other step
\* (ingest and register_user among them) leaves the consent dict of a user
\* that has one, and the latest receipt of every user, as they were.
C19_LatestReceiptIsCurrent ==
  /\ [](\A u \in DOMAIN receipts :
          receipts[u] # <<>> =>
            /\ receipts[u][Len(receipts[u])].snapshot = consent[u]
            /\ get_latest_receipt(u) = ReceiptDigest(u, consent[u]))
  /\ [][\A u \in Users :
          IF (Called("set_consent") \/ Called("revoke_consent")) /\ last'.user = u
          THEN get_latest_receipt(u)' = last'.ret
          ELSE /\ get_latest_receipt(u)' = get_latest_receipt(u)
               /\ u \in DOMAIN consent => consent'[u] = consent[u]
       ]_vars

\* an ingest by a user whose second receipt, of the current opt-in, differs
\* from the first
C19_Witness ==
  /\ last.op = "ingest"
  /\ Len(receipts[last.user]) = 2
  /\ consent[last.user].extractive
  /\ receipts[last.user][1].snapshot # consent[last.user]
  /\ receipts[last.user][2].snapshot = consent[last.user]
  /\ get_latest_receipt(last.user) = receipts[last.user][2].receipt
  /\ get_latest_receipt(last.user) # receipts[last.user][1].receipt

\* C20: in every reachable state published_count <= number of artifacts in
\* the store <= extractive_ingests, each artifact entering published at most
\* once; hence every RIM metric of audit lies between 0 and 1.
C20_CountersOrdered ==
  /\ published_count <= Cardinality(DOMAIN artifact_state)
  /\ Cardinality(DOMAIN artifact_state) <= extractive_ingests
  /\ \A k \in {"RIM1", "RIM2", "RIM3", "RIM4", "RIM5", "RIM6"} :
       audit[k] >= 0 /\ audit[k] <= 10000

====
